---- MODULE Spec2Model ----
(***************************************************************************)
(* A model of three pieces of the wallet application:                      *)
(*   - the Wyre Apple Pay order processor (wyreApplePay.js): the status    *)
(*     mapping, the address normalisation, the reconciliation of a local   *)
(*     order with the remote order/transfer, and the checkout flow;        *)
(*   - the InstaPay mnemonic helper (part_000): sign, then encrypt/decrypt;*)
(*   - the password re-entry screen (part_001).                            *)
(*                                                                         *)
(* JavaScript values are tagged records: every value has a field t, and    *)
(* each type keeps its payload under a field of its own, so that two       *)
(* values of different types compare unequal.                              *)
(***************************************************************************)
EXTENDS Integers, Sequences, FiniteSets, TLC

VARIABLES
    order,        \* the locally tracked fiat order (a JS object)
    lastRecon,    \* what the last processWyreApplePayOrder call saw and returned
    reconCount,   \* reconciliations performed so far
    normIn,       \* a remote order's status and dest, input of the helpers
    normOut,      \* the helpers' outputs for normIn, once applied
    checkout,     \* what the last showRequest call saw, did and returned
    keyrings,     \* KeyringController.state.keyrings
    signer,       \* whether the keyring signs deterministically
    box,          \* the private remote box slot DATA_KEY
    localStorage, \* AsyncStorage item '@MetaMask:InstaPayMnemonic'
    known,        \* values the callers of the mnemonic helper hold
    encLog,       \* successful encryptions: mnemonic, first account, ciphertext
    lastCall,     \* what the last mnemonic helper call did and returned
    callCount,    \* mnemonic helper calls performed so far
    password,     \* EnterPasswordSimple.state.password
    loading,      \* EnterPasswordSimple.state.loading
    error,        \* EnterPasswordSimple.state.error
    events        \* what the screen's handlers called, in order

wyreVars == <<order, lastRecon, reconCount>>
normVars == <<normIn, normOut>>
checkoutVars == <<checkout>>
mnemonicVars == <<keyrings, signer, box, localStorage, known, encLog, lastCall, callCount>>
passwordVars == <<password, loading, error, events>>
vars == <<wyreVars, normVars, checkoutVars, mnemonicVars, passwordVars>>

----------------------------------------------------------------------------
(* Bounds of the model *)

\* reconciliations of the order in one behaviour
MaxRecon == 2
\* pieces a destination string is built from
MaxPieces == 3
\* calls of the mnemonic helper in one behaviour
MaxCalls == 2
\* entries of the password screen's event log
MaxEvents == 4
\* longest password typed
MaxPwLen == 9

----------------------------------------------------------------------------
(* JavaScript values and the language rules the code relies on *)

Undefined == [t |-> "undefined"]
Null == [t |-> "null"]
Num(n) == [t |-> "number", n |-> n]
Str(s) == [t |-> "string", s |-> s]
Obj(r) == [t |-> "object", o |-> r]

\* the condition of if (v), !v and v ? a : b
Truthy(v) ==
    CASE v.t = "undefined" -> FALSE
      [] v.t = "null" -> FALSE
      [] v.t = "number" -> v.n # 0
      [] v.t = "string" -> v.s # ""
      [] OTHER -> TRUE

\* reading a property of undefined or null throws a TypeError
CanRead(v) == v.t \notin {"undefined", "null"}

\* v.k for a readable v: undefined when v has no property k
Get(v, k) ==
    IF v.t = "object" /\ k \in DOMAIN v.o THEN v.o[k] ELSE Undefined

\* the property name a value used as a key stands for
ToKey(v) ==
    CASE v.t = "string" -> v.s
      [] v.t = "undefined" -> "undefined"
      [] v.t = "null" -> "null"
      [] OTHER -> "[other]"

\* { ...a, ...b } on the property records of two objects
Merge(a, b) ==
    [k \in (DOMAIN a) \cup (DOMAIN b) |-> IF k \in DOMAIN b THEN b[k] ELSE a[k]]

\* the outcome of an expression or a call: a value, or a thrown error
Ok(v) == [ok |-> TRUE, val |-> v]
Throw(e) == [ok |-> FALSE, err |-> e]

\* an Error object: its class, message and the WyreException fields
Err(name, message) ==
    [name |-> name, message |-> message, type |-> Undefined, id |-> Undefined]

TypeError == Err("TypeError", "Cannot read property of undefined")

\* s.indexOf(p): the first 0-based index at which p occurs in s, or -1
IndexOf(s, p) ==
    LET hits == {i \in 0..(Len(s) - Len(p)) : SubSeq(s, i + 1, i + Len(p)) = p}
    IN IF hits = {} THEN -1 ELSE CHOOSE i \in hits : \A j \in hits : i <= j

\* s.includes(p)
Includes(s, p) == IndexOf(s, p) >= 0

\* s.substring(n) for 0 <= n
Substring(s, n) == SubSeq(s, n + 1, Len(s))

----------------------------------------------------------------------------
(* wyreApplePay.js: constants and helpers *)

WYRE_ORDER_STATES ==
    [RUNNING_CHECKS |-> Str("RUNNING_CHECKS"), FAILED |-> Str("FAILED"),
     PROCESSING |-> Str("PROCESSING"), COMPLETE |-> Str("COMPLETE")]

FIAT_ORDER_STATES ==
    [PENDING |-> Str("PENDING"), FAILED |-> Str("FAILED"),
     COMPLETED |-> Str("COMPLETED"), CANCELLED |-> Str("CANCELLED")]

FIAT_ORDER_PROVIDERS == [WYRE_APPLE_PAY |-> Str("WYRE_APPLE_PAY")]

\* variant: the prefix is looked for anywhere in dest
destToAddress_anywhere(dest) ==
    IF IndexOf(dest, "ethereum:") >= 0 THEN Substring(dest, 9) ELSE dest

destToAddress(dest) ==
    IF IndexOf(dest, "ethereum:") = 0 THEN Substring(dest, 9) ELSE dest

\* variant: the default branch gives CANCELLED
wyreOrderStateToFiatState_failedDefault(wyreOrderState) ==
    CASE wyreOrderState = WYRE_ORDER_STATES.COMPLETE -> FIAT_ORDER_STATES.COMPLETED
      [] wyreOrderState = WYRE_ORDER_STATES.RUNNING_CHECKS -> FIAT_ORDER_STATES.PENDING
      [] wyreOrderState = WYRE_ORDER_STATES.PROCESSING -> FIAT_ORDER_STATES.PENDING
      [] OTHER -> FIAT_ORDER_STATES.CANCELLED

wyreOrderStateToFiatState(wyreOrderState) ==
    CASE wyreOrderState = WYRE_ORDER_STATES.COMPLETE -> FIAT_ORDER_STATES.COMPLETED
      [] wyreOrderState = WYRE_ORDER_STATES.FAILED -> FIAT_ORDER_STATES.CANCELLED
      [] OTHER -> FIAT_ORDER_STATES.PENDING

\* the outcome of wyreOrderToFiatOrder(wyreOrder): reading wyreOrder.id throws
\* on undefined/null, and dest.indexOf throws unless dest is a string
wyreOrderToFiatOrder(wyreOrder) ==
    IF ~CanRead(wyreOrder) THEN Throw(TypeError)
    ELSE IF Get(wyreOrder, "dest").t # "string" THEN Throw(TypeError)
    ELSE Ok([id |-> Get(wyreOrder, "id"),
             provider |-> FIAT_ORDER_PROVIDERS.WYRE_APPLE_PAY,
             amount |-> Get(wyreOrder, "sourceAmount"),
             fee |-> Null,
             cryptoAmount |-> Null,
             cryptoFee |-> Null,
             currency |-> Get(wyreOrder, "sourceCurrency"),
             cryptocurrency |-> Get(wyreOrder, "destCurrency"),
             state |-> wyreOrderStateToFiatState(Get(wyreOrder, "status")),
             account |-> Str(destToAddress(Get(wyreOrder, "dest").s)),
             txHash |-> Null,
             data |-> Obj([order |-> wyreOrder])])

\* wyreTransfer.fee[wyreTransfer.destCurrency], evaluated when fee is truthy
FeeIn(wyreTransfer) ==
    Get(Get(wyreTransfer, "fee"), ToKey(Get(wyreTransfer, "destCurrency")))

\* variant: the transfer's status is overlaid as the order's state
wyreTransferToFiatOrder_setsState(wyreTransfer) ==
    IF ~CanRead(wyreTransfer) THEN Throw(TypeError)
    ELSE Ok([fee |-> Get(wyreTransfer, "fee"),
             cryptoAmount |-> Get(wyreTransfer, "destAmount"),
             cryptoFee |-> IF Truthy(Get(wyreTransfer, "fee"))
                           THEN FeeIn(wyreTransfer) ELSE Null,
             txHash |-> Get(wyreTransfer, "blockchainNetworkTx"),
             state |-> Get(wyreTransfer, "status")])

\* the outcome of wyreTransferToFiatOrder(wyreTransfer)
wyreTransferToFiatOrder(wyreTransfer) ==
    IF ~CanRead(wyreTransfer) THEN Throw(TypeError)
    ELSE Ok([fee |-> Get(wyreTransfer, "fee"),
             cryptoAmount |-> Get(wyreTransfer, "destAmount"),
             cryptoFee |-> IF Truthy(Get(wyreTransfer, "fee"))
                           THEN FeeIn(wyreTransfer) ELSE Null,
             txHash |-> Get(wyreTransfer, "blockchainNetworkTx")])

----------------------------------------------------------------------------
(* wyreApplePay.js: what the remote API can answer *)

NetworkError == Err("Error", "Network Error")

\* an axios response: { data, status, ... }
Response(status, data) == Obj([data |-> data, status |-> Num(status)])

\* a WyreOrder as GET v3/orders/:id returns it
WyreOrder(status, transferId, dest) ==
    Obj([id |-> Str("WO_1"), status |-> status, transferId |-> transferId,
         sourceAmount |-> Num(184), sourceCurrency |-> Str("USD"),
         destCurrency |-> Str("ETH"), dest |-> dest])

RemoteStatuses ==
    {WYRE_ORDER_STATES.RUNNING_CHECKS, WYRE_ORDER_STATES.FAILED,
     WYRE_ORDER_STATES.PROCESSING, WYRE_ORDER_STATES.COMPLETE,
     Str("EXPIRED"), Str("complete"), Undefined, Null}

\* the statuses the polled order goes through
PolledStatuses ==
    {WYRE_ORDER_STATES.PROCESSING, WYRE_ORDER_STATES.FAILED,
     WYRE_ORDER_STATES.COMPLETE, Str("EXPIRED"), Undefined}

OrderBodies ==
    {WyreOrder(s, tid, d) :
        s \in PolledStatuses,
        tid \in {Null, Str("TF_1")},
        d \in {Str("ethereum:0xAB"), Str("0xAB"), Undefined}}

\* bodies for which !data holds
EmptyBodies == {Undefined, Null, Str("")}

\* getOrderStatus(order.id): the request rejects, or resolves with a response
OrderOutcomes ==
    {Throw(NetworkError)}
    \cup {Ok(Response(200, b)) : b \in OrderBodies \cup EmptyBodies \cup {Str("<html>")}}

\* a WyreTransfer as GET v2/transfer/:id/track returns it
WyreTransfer(fee, tx) ==
    Obj([transferId |-> Str("TF_1"), feeCurrency |-> Str("USD"), fee |-> Num(fee),
         fees |-> Obj([ETH |-> Num(1), USD |-> Num(fee)]),
         sourceCurrency |-> Str("USD"), destCurrency |-> Str("ETH"),
         sourceAmount |-> Num(184), destAmount |-> Num(5),
         status |-> Str("COMPLETED"), blockchainNetworkTx |-> tx])

TransferBodies == {WyreTransfer(f, tx) : f \in {0, 3}, tx \in {Null, Str("0xhash")}}

\* getTransferStatus(transferId): the request rejects, or resolves with a response
TransferOutcomes ==
    {Throw(NetworkError)}
    \cup {Ok(Response(200, b)) : b \in TransferBodies \cup {Str("")}}

\* the outcome recorded when getTransferStatus was not called
NotFetched == Throw(Err("none", "getTransferStatus was not called"))

----------------------------------------------------------------------------
(* wyreApplePay.js: processWyreApplePayOrder *)

\* whether the call reaches getTransferStatus: the order request resolved with
\* a truthy body carrying a truthy transferId
FetchesTransfer(orderOutcome) ==
    /\ orderOutcome.ok
    /\ Truthy(Get(orderOutcome.val, "data"))
    /\ Truthy(Get(Get(orderOutcome.val, "data"), "transferId"))

\* the object literal of the transferId branch: the spreads are evaluated in
\* order, and transfer is what the awaited getTransferStatus resolved with
WithTransfer(o, data, transfer) ==
    LET fromOrder == wyreOrderToFiatOrder(data)
        fromTransfer == wyreTransferToFiatOrder(transfer)
    IN IF ~fromOrder.ok THEN fromOrder
       ELSE IF ~fromTransfer.ok THEN fromTransfer
       ELSE Ok(Obj(Merge(Merge(Merge(o.o, fromOrder.val), fromTransfer.val),
                         [data |-> Obj([order |-> data, transfer |-> transfer])])))

\* the object literal of the branch without a transferId
WithoutTransfer(o, data) ==
    LET fromOrder == wyreOrderToFiatOrder(data)
    IN IF ~fromOrder.ok THEN fromOrder
       ELSE Ok(Obj(Merge(o.o, fromOrder.val)))

\* the try block: a returned value, or the error the catch clause receives
TryBlock(o, orderOutcome, transferOutcome) ==
    IF ~orderOutcome.ok THEN orderOutcome
    ELSE LET data == Get(orderOutcome.val, "data")
         IN IF ~Truthy(data) THEN Ok(o)
            ELSE IF Truthy(Get(data, "transferId"))
            THEN IF ~transferOutcome.ok THEN transferOutcome
                 ELSE WithTransfer(o, data, transferOutcome.val)
            ELSE WithoutTransfer(o, data)

\* variant: no catch clause, the error reaches the caller
processWyreApplePayOrder_propagates(o, orderOutcome, transferOutcome) ==
    TryBlock(o, orderOutcome, transferOutcome)

\* the outcome of processWyreApplePayOrder(order): the catch clause returns order
processWyreApplePayOrder(o, orderOutcome, transferOutcome) ==
    LET body == TryBlock(o, orderOutcome, transferOutcome)
    IN IF body.ok THEN body ELSE Ok(o)

\* the order the checkout stored: { ...wyreOrderToFiatOrder(data), network }
InitialOrder ==
    Obj(Merge(wyreOrderToFiatOrder(
                  WyreOrder(WYRE_ORDER_STATES.RUNNING_CHECKS, Null,
                            Str("ethereum:0xAB"))).val,
              [network |-> Str("1")]))

NoRecon ==
    [input |-> InitialOrder, orderOutcome |-> Throw(Err("none", "no call yet")),
     transferOutcome |-> NotFetched, fetched |-> FALSE, outcome |-> Ok(InitialOrder)]

\* one polling cycle: the order is processed and the returned order is stored
ProcessOrder ==
    /\ reconCount < MaxRecon
    /\ \E oo \in OrderOutcomes, to \in TransferOutcomes :
          LET res == processWyreApplePayOrder(order, oo, to)
          IN /\ lastRecon' = [input |-> order, orderOutcome |-> oo,
                              transferOutcome |-> IF FetchesTransfer(oo) THEN to
                                                  ELSE NotFetched,
                              fetched |-> FetchesTransfer(oo),
                              outcome |-> res]
             /\ order' = IF res.ok THEN res.val ELSE order
    /\ reconCount' = reconCount + 1
    /\ UNCHANGED <<normVars, checkoutVars, mnemonicVars, passwordVars>>

----------------------------------------------------------------------------
(* wyreApplePay.js: the two helpers applied to a remote order's status and dest *)

\* the pieces destination strings are concatenated from
Pieces == {"ethereum:", "0x", "AB", "e", ":"}

\* the strings made of at most n pieces
RECURSIVE DestStrings(_)
DestStrings(n) ==
    IF n = 0 THEN {""}
    ELSE DestStrings(n - 1) \cup {p \o s : p \in Pieces, s \in DestStrings(n - 1)}

NormInputs == [status : RemoteStatuses, dest : DestStrings(MaxPieces)]

NotApplied == [applied |-> FALSE, state |-> Undefined, account |-> ""]

\* the remote order moves to another status; its destination stays
NextRemoteOrder ==
    /\ \E s \in RemoteStatuses :
          /\ s # normIn.status
          /\ normIn' = [normIn EXCEPT !.status = s]
    /\ normOut' = NotApplied
    /\ UNCHANGED <<wyreVars, checkoutVars, mnemonicVars, passwordVars>>

\* the state and account fields as wyreOrderToFiatOrder computes them
ApplyHelpers ==
    /\ ~normOut.applied
    /\ normOut' = [applied |-> TRUE,
                   state |-> wyreOrderStateToFiatState(normIn.status),
                   account |-> destToAddress(normIn.dest)]
    /\ UNCHANGED <<normIn, wyreVars, checkoutVars, mnemonicVars, passwordVars>>

----------------------------------------------------------------------------
(* wyreApplePay.js: the checkout flow, useWyreApplePay.showRequest *)

WYRE_IS_PROMOTION == TRUE
WYRE_FEE_PERCENT == 0
WYRE_FEE_FLAT == 0

\* fee and total of the hook under the promotion: both fees are zero
Total(amount) == amount + WYRE_FEE_PERCENT + WYRE_FEE_FLAT

PAYMENT_REQUEST_COMPLETE == [SUCCESS |-> "success", UNKNOWN |-> "unknown", FAIL |-> "fail"]

Arr(seq) == [t |-> "array", a |-> seq]

\* s.split('\n')
RECURSIVE SplitLines(_)
SplitLines(s) ==
    LET i == IndexOf(s, "\n")
    IN IF i < 0 THEN <<Str(s)>>
       ELSE <<Str(SubSeq(s, 1, i))>> \o SplitLines(Substring(s, i + 1))

\* the outcome of createPayload(amount, address, paymentDetails): the
\* destructuring and the property reads throw on an absent contact
createPayload(amount, address, paymentDetails) ==
    LET billing == Get(paymentDetails, "billingContact")
        postalAddress == Get(billing, "postalAddress")
        name == Get(billing, "name")
        shipping == Get(paymentDetails, "shippingContact")
    IN IF \/ ~CanRead(paymentDetails) \/ ~CanRead(billing)
          \/ ~CanRead(postalAddress) \/ ~CanRead(name) \/ ~CanRead(shipping)
          \/ Get(postalAddress, "street").t # "string"
       THEN Throw(TypeError)
       ELSE LET formattedBillingContact ==
                    [addressLines |-> Arr(SplitLines(Get(postalAddress, "street").s)),
                     administrativeArea |-> Get(postalAddress, "state"),
                     country |-> Get(postalAddress, "country"),
                     countryCode |-> Get(postalAddress, "ISOCountryCode"),
                     familyName |-> Get(name, "familyName"),
                     givenName |-> Get(name, "givenName"),
                     locality |-> Get(postalAddress, "city"),
                     postalCode |-> Get(postalAddress, "postalCode"),
                     subAdministrativeArea |-> Get(postalAddress, "subAdministrativeArea"),
                     subLocality |-> Get(postalAddress, "subLocality")]
                formattedShippingContact ==
                    Merge(formattedBillingContact,
                          [emailAddress |-> Get(shipping, "emailAddress"),
                           phoneNumber |-> Get(shipping, "phoneNumber")])
                paymentMethod == Get(paymentDetails, "paymentMethod")
            IN Ok(Obj([partnerId |-> Str("AC_PARTNER"),
                       payload |-> Obj(
                         [orderRequest |-> Obj(
                            [amount |-> Num(amount),
                             dest |-> Str("ethereum:" \o address),
                             destCurrency |-> Str("ETH"),
                             referrerAccountId |-> Str("AC_PARTNER"),
                             sourceCurrency |-> Str("USD")]),
                          paymentObject |-> Obj(
                            [billingContact |-> Obj(formattedBillingContact),
                             shippingContact |-> Obj(formattedShippingContact),
                             token |-> Obj(
                               [paymentData |-> Get(paymentDetails, "paymentData"),
                                paymentMethod |-> Obj(Merge(
                                    IF paymentMethod.t = "object" THEN paymentMethod.o
                                    ELSE [type |-> Undefined],
                                    [type |-> Str("debit")])),
                                transactionIdentifier |->
                                    Get(paymentDetails, "transactionIdentifier")])])])]))

\* the message property of new Error(message)
ErrorMessage(v) ==
    CASE v.t = "undefined" -> ""
      [] v.t = "string" -> v.s
      [] v.t = "null" -> "null"
      [] OTHER -> "[object Object]"

\* new WyreException(message, type, exceptionId)
WyreException(message, type, exceptionId) ==
    [name |-> "WyreException", message |-> ErrorMessage(message),
     type |-> type, id |-> exceptionId]


\* what the network does with the POST: it fails, or an HTTP response arrives
HttpStatuses == {100, 200, 201, 299, 300, 400, 500}

\* a WyreError body
WyreError(message, type) ==
    Obj([exceptionId |-> Str("EX_1"), type |-> type, errorCode |-> Str("validation"),
         message |-> message, language |-> Str("en"), transient |-> Str("false")])

ErrorBodies ==
    {WyreError(m, ty) :
        m \in {Str("Invalid amount"), Str("AbortError: request aborted"), Undefined},
        ty \in {Str("ValidationException"), Str("UnknownException")}}

PostBodies ==
    {WyreOrder(WYRE_ORDER_STATES.RUNNING_CHECKS, Null, Str("ethereum:0xAB")),
     WyreOrder(WYRE_ORDER_STATES.PROCESSING, Str("TF_1"), Str("ethereum:0xCD"))}
    \cup ErrorBodies \cup {Str(""), Null}

NetOutcomes ==
    {[kind |-> "error", err |-> NetworkError],
     [kind |-> "error", err |-> Err("Error", "timeout of 25000ms exceeded")]}
    \cup {[kind |-> "http", status |-> st, body |-> b] : st \in HttpStatuses, b \in PostBodies}

\* the outcome of createFiatOrder(payload): validateStatus resolves the promise
\* for every status >= 200 and rejects it below
createFiatOrder(net) ==
    IF net.kind = "error" THEN Throw(net.err)
    ELSE IF net.status >= 200 THEN Ok(Response(net.status, net.body))
    ELSE Throw(Err("Error", "Request failed with status code"))

\* what paymentRequest.show() can do
GoodDetails ==
    Obj([billingContact |-> Obj(
           [postalAddress |-> Obj([street |-> Str("1 Main St\nApt 2"), state |-> Str("CA"),
                                   country |-> Str("United States"),
                                   ISOCountryCode |-> Str("US"), city |-> Str("SF"),
                                   postalCode |-> Str("94103")]),
            name |-> Obj([familyName |-> Str("Doe"), givenName |-> Str("Jo")])]),
         paymentData |-> Str("token"),
         paymentMethod |-> Obj([network |-> Str("visa"), type |-> Str("credit")]),
         shippingContact |-> Obj([emailAddress |-> Str("jo@example.com"),
                                  phoneNumber |-> Str("555")]),
         transactionIdentifier |-> Str("TX_1")])

BadDetails == Obj([paymentData |-> Str("token")])

AbortError == Err("Error", "AbortError")

ShowOutcomes ==
    {Ok(Obj([details |-> GoodDetails])), Ok(Obj([details |-> BadDetails])), Ok(Null),
     Throw(AbortError), Throw(Err("Error", "NotSupportedError"))}

\* the marker recorded when createFiatOrder was not called
NotSubmitted == [kind |-> "none"]

\* the try block of showRequest: its outcome, the calls made on the payment
\* sheet, and whether the order was posted
ShowTry(amount, address, network, showOutcome, net) ==
    LET total == Total(amount)
        paymentResponse == showOutcome.val
        payload == createPayload(total, address, Get(paymentResponse, "details"))
        post == createFiatOrder(net)
        data == Get(post.val, "data")
        status == Get(post.val, "status").n
        fiatOrder == wyreOrderToFiatOrder(data)
    IN IF ~showOutcome.ok
       THEN [res |-> showOutcome, sheet |-> <<"show">>, posted |-> FALSE]
       ELSE IF ~Truthy(paymentResponse)
       THEN [res |-> Throw(Err("Error", "Payment Request Failed")),
             sheet |-> <<"show">>, posted |-> FALSE]
       ELSE IF ~payload.ok
       THEN [res |-> payload, sheet |-> <<"show">>, posted |-> FALSE]
       ELSE IF ~post.ok
       THEN [res |-> post, sheet |-> <<"show">>, posted |-> TRUE]
       ELSE IF status >= 200 /\ status < 300
       THEN [res |-> IF fiatOrder.ok
                     THEN Ok(Obj(Merge(fiatOrder.val, [network |-> network])))
                     ELSE fiatOrder,
             sheet |-> <<"show", "complete:" \o PAYMENT_REQUEST_COMPLETE.SUCCESS>>,
             posted |-> TRUE]
       ELSE [res |-> IF CanRead(data)
                     THEN Throw(WyreException(Get(data, "message"), Get(data, "type"),
                                              Get(data, "exceptionId")))
                     ELSE Throw(TypeError),
             sheet |-> <<"show", "complete:" \o PAYMENT_REQUEST_COMPLETE.FAIL>>,
             posted |-> TRUE]

\* showRequest: the try block, then the catch clause on a thrown error
showRequest(amount, address, network, showOutcome, net) ==
    LET try == ShowTry(amount, address, network, showOutcome, net)
    IN IF try.res.ok THEN try
       ELSE IF Includes(try.res.err.message, "AbortError")
       THEN [res |-> Ok(Null), sheet |-> try.sheet, posted |-> try.posted]
       ELSE [res |-> try.res, sheet |-> Append(try.sheet, "abort"), posted |-> try.posted]

\* the hook's arguments, before showRequest has run
NoCheckout(amount, address, network) ==
    [amount |-> amount, address |-> address, network |-> network, ran |-> FALSE,
     show |-> Ok(Null), net |-> NotSubmitted, res |-> Ok(Undefined), sheet |-> <<>>,
     posted |-> FALSE]

HookArguments ==
    {NoCheckout(amount, address, network) :
        amount \in {50, 184}, address \in {"0xAB", "0xCD"}, network \in {Str("1"), Str("3")}}

\* the user asks for a purchase: one run of showRequest
Checkout ==
    /\ \E so \in ShowOutcomes, net \in NetOutcomes :
          LET r == showRequest(checkout.amount, checkout.address, checkout.network, so, net)
          IN checkout' = [checkout EXCEPT !.ran = TRUE, !.show = so,
                              !.net = IF r.posted THEN net ELSE NotSubmitted,
                              !.res = r.res, !.sheet = r.sheet, !.posted = r.posted]
    /\ UNCHANGED <<wyreVars, normVars, mnemonicVars, passwordVars>>

----------------------------------------------------------------------------
(* part_000: the InstaPay mnemonic helper *)

MESSAGE_2_SIGN == "InstaPayMnemonic"

\* values of the helper: signatures, ciphertexts and plain texts
Sig(from, data, nonce) == [t |-> "signature", from |-> from, data |-> data, nonce |-> nonce]
Cipher(key, plain, salt) == [t |-> "cipher", key |-> key, plain |-> plain, salt |-> salt]

Mnemonics == {Str("abandon ability"), Str("zoo zone")}

\* the keyring states the wallet goes through
KeyringStates ==
    {<<>>,
     <<[accounts |-> <<>>]>>,
     <<[accounts |-> <<"0xA">>]>>,
     <<[accounts |-> <<"0xA", "0xB">>]>>,
     <<[accounts |-> <<>>], [accounts |-> <<"0xB">>]>>,
     <<[accounts |-> <<"0xB">>], [accounts |-> <<"0xA">>]>>}

\* what one signing request meets: a refusal, and the nonce a randomized
\* signer would draw
SignChoices == [fails : BOOLEAN, nonce : {0, 1}]

\* the salts the encryptor draws
Salts == {0, 1}

\* byteArrayToHex(message)
byteArrayToHex(message) == "0x" \o message

\* allKeyrings.reduce((list, keyring) => list.concat(keyring.accounts), [])
RECURSIVE accountsOrdered(_)
accountsOrdered(allKeyrings) ==
    IF allKeyrings = <<>> THEN <<>>
    ELSE Head(allKeyrings).accounts \o accountsOrdered(Tail(allKeyrings))

\* list[i], undefined outside the list
At(list, i) == IF 0 <= i /\ i < Len(list) THEN Str(list[i + 1]) ELSE Undefined

\* KeyringController.signPersonalMessage({ data, from })
signPersonalMessage(data, from, choice) ==
    IF from.t # "string"
    THEN Throw(Err("Error", "No keyring found for the requested account"))
    ELSE IF choice.fails THEN Throw(Err("Error", "User denied message signature"))
    ELSE Ok(Sig(from.s, data, IF signer = "deterministic" THEN 0 ELSE choice.nonce))

\* variant: the last account signs instead of the first
signMessageWithAccount0_lastAccount(message, choice) ==
    LET list == accountsOrdered(keyrings)
    IN signPersonalMessage(byteArrayToHex(message), At(list, Len(list) - 1), choice)

\* the outcome of signMessageWithAccount0(message)
signMessageWithAccount0(message, choice) ==
    signPersonalMessage(byteArrayToHex(message), At(accountsOrdered(keyrings), 0), choice)

\* encryptor.encrypt(password, object) and encryptor.decrypt(password, text)
Encrypt(pw, plain, salt) == Ok(Cipher(pw, plain, salt))
Decrypt(pw, text) ==
    IF text.t = "cipher" /\ text.key = pw THEN Ok(text.plain)
    ELSE Throw(Err("Error", "Decrypt failed"))

\* the outcome of encryptMnenomic(encryptor, mnemonic) and the external calls
\* it made, in order; pw is the outcome of its signing request
encryptMnenomic(mnemonic, choice, salt) ==
    LET pw == signMessageWithAccount0(MESSAGE_2_SIGN, choice)
    IN IF ~pw.ok THEN [res |-> pw, trace |-> <<"sign">>, pw |-> pw]
       ELSE [res |-> Encrypt(pw.val, mnemonic, salt),
             trace |-> <<"sign", "encrypt">>, pw |-> pw]

\* the outcome of decryptMnemonic(encryptor, encryptedMnemonic)
decryptMnemonic(encryptedMnemonic, choice) ==
    LET pw == signMessageWithAccount0(MESSAGE_2_SIGN, choice)
    IN IF ~pw.ok THEN [res |-> pw, trace |-> <<"sign">>, pw |-> pw]
       ELSE [res |-> Decrypt(pw.val, encryptedMnemonic),
             trace |-> <<"sign", "decrypt">>, pw |-> pw]

\* variant: the password is written instead of the ciphertext
saveMnemonic_storesPassword(mnemonic, choice, salt) ==
    LET enc == encryptMnenomic(mnemonic, choice, salt)
    IN IF ~enc.res.ok THEN enc @@ [stored |-> Undefined]
       ELSE [res |-> Ok(Undefined), trace |-> Append(enc.trace, "setItem"),
             pw |-> enc.pw, stored |-> enc.pw.val]

\* the outcome of saveMnemonic(encryptor, mnemonic): what it returned, the
\* calls it made, and the item it wrote (undefined when it wrote nothing)
saveMnemonic(mnemonic, choice, salt) ==
    LET enc == encryptMnenomic(mnemonic, choice, salt)
    IN IF ~enc.res.ok THEN enc @@ [stored |-> Undefined]
       ELSE [res |-> Ok(Undefined), trace |-> Append(enc.trace, "setItem"),
             pw |-> enc.pw, stored |-> enc.res.val]

FirstAccount == At(accountsOrdered(keyrings), 0)

\* the external calls a trace holds
Calls(trace) == {trace[i] : i \in DOMAIN trace}

NoCall ==
    [op |-> "none", arg |-> Undefined, res |-> Ok(Undefined), trace |-> <<>>,
     pw |-> Ok(Undefined), account0 |-> Undefined,
     boxBefore |-> Undefined, localBefore |-> Undefined]

CallRecord(op, arg, r) ==
    [op |-> op, arg |-> arg, res |-> r.res, trace |-> r.trace, pw |-> r.pw,
     account0 |-> FirstAccount, boxBefore |-> box, localBefore |-> localStorage]

\* a caller encrypts a mnemonic and keeps the ciphertext
EncryptCall ==
    /\ callCount < MaxCalls
    /\ \E m \in Mnemonics, choice \in SignChoices, salt \in Salts :
          LET r == encryptMnenomic(m, choice, salt)
          IN /\ lastCall' = CallRecord("encrypt", m, r)
             /\ known' = IF r.res.ok THEN known \cup {r.res.val} ELSE known
             /\ encLog' = IF r.res.ok
                          THEN encLog \cup {[mnemonic |-> m, account0 |-> FirstAccount,
                                             cipher |-> r.res.val]}
                          ELSE encLog
    /\ callCount' = callCount + 1
    /\ UNCHANGED <<keyrings, signer, box, localStorage>>
    /\ UNCHANGED <<wyreVars, normVars, checkoutVars, passwordVars>>

\* a caller decrypts a value it holds
DecryptCall ==
    /\ callCount < MaxCalls
    /\ \E c \in known, choice \in SignChoices :
          LET r == decryptMnemonic(c, choice)
          IN /\ lastCall' = CallRecord("decrypt", c, r)
             /\ known' = IF r.res.ok THEN known \cup {r.res.val} ELSE known
    /\ callCount' = callCount + 1
    /\ UNCHANGED <<keyrings, signer, box, localStorage, encLog>>
    /\ UNCHANGED <<wyreVars, normVars, checkoutVars, passwordVars>>

\* saveMnemonic: encrypt, then write the ciphertext to AsyncStorage
SaveCall ==
    /\ callCount < MaxCalls
    /\ \E m \in Mnemonics, choice \in SignChoices, salt \in Salts :
          LET r == saveMnemonic(m, choice, salt)
          IN /\ lastCall' = CallRecord("save", m, r)
             /\ localStorage' = IF "setItem" \in Calls(r.trace)
                                THEN r.stored ELSE localStorage
             /\ encLog' = IF r.res.ok /\ r.stored.t = "cipher"
                          THEN encLog \cup {[mnemonic |-> m, account0 |-> FirstAccount,
                                             cipher |-> r.stored]}
                          ELSE encLog
    /\ callCount' = callCount + 1
    /\ UNCHANGED <<keyrings, signer, box, known>>
    /\ UNCHANGED <<wyreVars, normVars, checkoutVars, passwordVars>>

\* backupMnemonic(instance, encryptedMnemonic): privateSetBox(DATA_KEY, ...)
BackupCall ==
    /\ callCount < MaxCalls
    /\ \E c \in known :
          /\ box' = c
          /\ lastCall' = [op |-> "backup", arg |-> c, res |-> Ok(Undefined),
                          trace |-> <<"privateSetBox">>, pw |-> Ok(Undefined),
                          account0 |-> FirstAccount, boxBefore |-> box,
                          localBefore |-> localStorage]
    /\ callCount' = callCount + 1
    /\ UNCHANGED <<keyrings, signer, localStorage, known, encLog>>
    /\ UNCHANGED <<wyreVars, normVars, checkoutVars, passwordVars>>

\* getMnemonicFromBackup(instance): privateGetBox(DATA_KEY)
RestoreCall ==
    /\ callCount < MaxCalls
    /\ known' = known \cup {box}
    /\ lastCall' = [op |-> "restore", arg |-> Undefined, res |-> Ok(box),
                    trace |-> <<"privateGetBox">>, pw |-> Ok(Undefined),
                    account0 |-> FirstAccount, boxBefore |-> box,
                    localBefore |-> localStorage]
    /\ callCount' = callCount + 1
    /\ UNCHANGED <<keyrings, signer, box, localStorage, encLog>>
    /\ UNCHANGED <<wyreVars, normVars, checkoutVars, passwordVars>>

\* the wallet's keyrings change between two calls of the helper
KeyringChange ==
    /\ keyrings' \in KeyringStates
    /\ keyrings' # keyrings
    /\ UNCHANGED <<signer, box, localStorage, known, encLog, lastCall, callCount>>
    /\ UNCHANGED <<wyreVars, normVars, checkoutVars, passwordVars>>

----------------------------------------------------------------------------
(* part_001: the password re-entry screen, EnterPasswordSimple *)

\* the string of n characters
RECURSIVE Typed(_)
Typed(n) == IF n = 0 THEN "" ELSE "a" \o Typed(n - 1)

PasswordInputs == {Typed(n) : n \in 0..MaxPwLen}

Event(e, pw) == [e |-> e, pw |-> pw]

\* onPasswordChange(val)
onPasswordChange ==
    /\ \E val \in PasswordInputs : password' = val
    /\ UNCHANGED <<loading, error, events>>
    /\ UNCHANGED <<wyreVars, normVars, checkoutVars, mnemonicVars>>

\* variant: no length test
onPressConfirm_anyPassword ==
    /\ Len(events) + 2 <= MaxEvents
    /\ ~loading
    /\ events' = events \o <<Event("onPasswordSet", password), Event("pop", "")>>
    /\ UNCHANGED <<password, loading, error>>
    /\ UNCHANGED <<wyreVars, normVars, checkoutVars, mnemonicVars>>

\* onPressConfirm: nothing while loading, an alert for a short password,
\* otherwise the callback and then the pop
onPressConfirm ==
    /\ Len(events) + 2 <= MaxEvents
    /\ ~loading
    /\ IF Len(password) < 8
       THEN events' = Append(events, Event("Alert.alert", ""))
       ELSE events' = events \o <<Event("onPasswordSet", password), Event("pop", "")>>
    /\ UNCHANGED <<password, loading, error>>
    /\ UNCHANGED <<wyreVars, normVars, checkoutVars, mnemonicVars>>

----------------------------------------------------------------------------
(* Specifications: one per piece, each leaving the other pieces at rest *)

InitRest ==
    /\ order = InitialOrder
    /\ lastRecon = NoRecon
    /\ reconCount = 0
    /\ normOut = NotApplied
    /\ keyrings = <<[accounts |-> <<"0xA">>]>>
    /\ box = Undefined
    /\ localStorage = Undefined
    /\ known = {}
    /\ encLog = {}
    /\ lastCall = NoCall
    /\ callCount = 0
    /\ password = ""
    /\ loading = FALSE
    /\ error = Null
    /\ events = <<>>

Init ==
    /\ InitRest
    /\ normIn = [status |-> Undefined, dest |-> ""]
    /\ checkout = NoCheckout(184, "0xAB", Str("1"))
    /\ signer = "deterministic"

\* the reconciliation of the stored order, cycle after cycle
Spec == Init /\ [][ProcessOrder]_vars

\* the helpers, on every remote status and destination
InitNormalize ==
    /\ InitRest
    /\ normIn \in NormInputs
    /\ checkout = NoCheckout(184, "0xAB", Str("1"))
    /\ signer = "deterministic"

NextNormalize == NextRemoteOrder \/ ApplyHelpers

SpecNormalize == InitNormalize /\ [][NextNormalize]_vars

\* the checkout flow, for each set of arguments of the hook
InitCheckout ==
    /\ InitRest
    /\ normIn = [status |-> Undefined, dest |-> ""]
    /\ checkout \in HookArguments
    /\ signer = "deterministic"

SpecCheckout == InitCheckout /\ [][Checkout]_vars

\* the mnemonic helper, with either kind of signer
InitMnemonic ==
    /\ InitRest
    /\ normIn = [status |-> Undefined, dest |-> ""]
    /\ checkout = NoCheckout(184, "0xAB", Str("1"))
    /\ signer \in {"deterministic", "randomized"}

NextMnemonic ==
    \/ EncryptCall
    \/ DecryptCall
    \/ SaveCall
    \/ BackupCall
    \/ RestoreCall
    \/ KeyringChange

SpecMnemonic == InitMnemonic /\ [][NextMnemonic]_vars

\* the password screen
NextPassword == onPasswordChange \/ onPressConfirm

SpecPassword == Init /\ [][NextPassword]_vars

----------------------------------------------------------------------------
(* The reconciliation, under Spec *)

\* the last reconciliation's order request resolved with this body
ReconBody == Get(lastRecon.orderOutcome.val, "data")

\* the cases in which the reconciliation is to change nothing
OrderRequestThrew == ~lastRecon.orderOutcome.ok
OrderBodyEmpty == lastRecon.orderOutcome.ok /\ ReconBody \in EmptyBodies
TransferRequestThrew == lastRecon.fetched /\ ~lastRecon.transferOutcome.ok

\* C1: processWyreApplePayOrder never throws, and it returns its input order,
\* field for field, when the order request throws, when the order response has
\* an empty or absent body, and when the transfer request throws after the
\* order request succeeded.
C1_NoOpOnFailure ==
    reconCount > 0 =>
        /\ lastRecon.outcome.ok
        /\ (OrderRequestThrew \/ OrderBodyEmpty \/ TransferRequestThrew) =>
              /\ lastRecon.outcome.val = lastRecon.input
              /\ order = lastRecon.input

\* a second reconciliation, of an order the first one changed, whose transfer
\* request threw after the order request succeeded
C1_Witness ==
    /\ reconCount = 2
    /\ lastRecon.input # InitialOrder
    /\ TransferRequestThrew
    /\ lastRecon.outcome = Ok(lastRecon.input)

\* both fetches succeeded: an order with a transfer identifier and a usable
\* destination, and a transfer status record
BothFetched ==
    /\ reconCount > 0
    /\ lastRecon.fetched
    /\ ReconBody \in OrderBodies
    /\ Get(ReconBody, "dest").t = "string"
    /\ lastRecon.transferOutcome.ok
    /\ Get(lastRecon.transferOutcome.val, "data") \in TransferBodies

\* the order fetch succeeded with an order that carries no transfer identifier
OrderOnlyFetched ==
    /\ reconCount > 0
    /\ lastRecon.orderOutcome.ok
    /\ ReconBody \in OrderBodies
    /\ Get(ReconBody, "dest").t = "string"
    /\ ~Truthy(Get(ReconBody, "transferId"))

\* C2: when the remote order carries a transfer identifier and both fetches
\* succeed, the returned order's fee, cryptoAmount, cryptoFee and txHash are the
\* transfer record's fee, destAmount, fee in the destination cryptocurrency and
\* blockchainNetworkTx; without a transfer identifier no transfer is fetched and
\* nothing of a transfer is overlaid.
C2_TransferFieldsOverlaid ==
    /\ BothFetched =>
          LET record == Get(lastRecon.transferOutcome.val, "data")
              result == lastRecon.outcome.val
          IN /\ Get(result, "fee") = Get(record, "fee")
             /\ Get(result, "cryptoAmount") = Get(record, "destAmount")
             /\ Get(result, "cryptoFee")
                   = Get(Get(record, "fees"), ToKey(Get(record, "destCurrency")))
             /\ Get(result, "txHash") = Get(record, "blockchainNetworkTx")
    /\ OrderOnlyFetched =>
          /\ lastRecon.transferOutcome = NotFetched
          /\ Get(Get(lastRecon.outcome.val, "data"), "transfer") = Undefined
          /\ \A f \in {"fee", "cryptoAmount", "cryptoFee", "txHash"} :
                Get(lastRecon.outcome.val, f) = Null

\* the reconciliation changed nothing
ReconNoOp == lastRecon.outcome.val = lastRecon.input

\* the resolved transfer responses
ResolvedTransfers == {to \in TransferOutcomes : to.ok}

\* C3: after each reconciliation the order's state is its previous value when
\* the reconciliation was a no-op, and otherwise the mapping of the remote order
\* status fetched in it; whatever else the transfer response could have held,
\* the state stored would be the same.
C3_StateFromOrderStatusOnly ==
    reconCount > 0 =>
        /\ IF ReconNoOp
           THEN Get(order, "state") = Get(lastRecon.input, "state")
           ELSE /\ lastRecon.orderOutcome.ok
                /\ Get(order, "state")
                      = wyreOrderStateToFiatState(Get(ReconBody, "status"))
        /\ (lastRecon.fetched /\ lastRecon.transferOutcome.ok) =>
              \A other \in ResolvedTransfers :
                 Get(processWyreApplePayOrder(lastRecon.input, lastRecon.orderOutcome,
                                              other).val, "state")
                    = Get(order, "state")

\* a reconciliation that fetched a transfer and moved the order from PENDING to
\* COMPLETED
C3_Witness ==
    /\ reconCount > 0
    /\ lastRecon.fetched
    /\ lastRecon.transferOutcome.ok
    /\ Get(lastRecon.input, "state") = FIAT_ORDER_STATES.PENDING
    /\ Get(order, "state") = FIAT_ORDER_STATES.COMPLETED

----------------------------------------------------------------------------
(* The helpers, under SpecNormalize *)

\* C4: the status mapping is total and exact: COMPLETE gives COMPLETED, FAILED
\* gives CANCELLED, and every other value (RUNNING_CHECKS, PROCESSING, an
\* unknown string, a missing status) gives PENDING.
C4_StatusMappingExact ==
    normOut.applied =>
        normOut.state =
            IF normIn.status = Str("COMPLETE") THEN Str("COMPLETED")
            ELSE IF normIn.status = Str("FAILED") THEN Str("CANCELLED")
            ELSE Str("PENDING")

\* the mapping applied to a missing status
C4_Witness ==
    /\ normOut.applied
    /\ normIn.status = Undefined
    /\ normOut.state = Str("PENDING")

\* dest starts with the chain prefix
HasPrefix(dest) == Len(dest) >= 9 /\ SubSeq(dest, 1, 9) = "ethereum:"

\* C9: a destination that starts with "ethereum:" yields the remainder after
\* the prefix, and any other destination, one that holds the prefix elsewhere
\* included, is returned unchanged.
C9_StripsLeadingPrefixOnly ==
    normOut.applied =>
        IF HasPrefix(normIn.dest)
        THEN "ethereum:" \o normOut.account = normIn.dest
        ELSE normOut.account = normIn.dest

\* the helper applied to a destination that holds the prefix, not at its start
C9_Witness ==
    /\ normOut.applied
    /\ ~HasPrefix(normIn.dest)
    /\ Includes(normIn.dest, "ethereum:")
    /\ normOut.account = normIn.dest

----------------------------------------------------------------------------
(* The checkout flow, under SpecCheckout *)

\* the submission was answered: createFiatOrder resolved with a response
Answered == checkout.ran /\ checkout.posted /\ createFiatOrder(checkout.net).ok

\* the WyreException the body of a failed submission calls for
ExceptionOf(body) ==
    [name |-> "WyreException", message |-> ErrorMessage(Get(body, "message")),
     type |-> Get(body, "type"), id |-> Get(body, "exceptionId")]

\* C5: a submission response with a status in 200..299 yields the success
\* result built from the response body and completes the payment sheet with
\* success; a response with any other status aborts the payment sheet and
\* raises a WyreException carrying the body's message, type and exceptionId,
\* whatever those values are.
C5_StatusDecidesOutcome ==
    Answered =>
        IF checkout.net.status >= 200 /\ checkout.net.status < 300
        THEN checkout.net.body \in OrderBodies =>
                /\ checkout.res
                      = Ok(Obj(Merge(wyreOrderToFiatOrder(checkout.net.body).val,
                                     [network |-> checkout.network])))
                /\ checkout.sheet = <<"show", "complete:success">>
        ELSE checkout.net.body \in ErrorBodies =>
                /\ checkout.res = Throw(ExceptionOf(checkout.net.body))
                /\ "abort" \in Calls(checkout.sheet)

\* the payment sheet was dismissed by the user
UserCancelled == checkout.ran /\ checkout.show = Throw(AbortError)

\* C6: when the user cancels the payment sheet, showRequest returns null,
\* throws nothing and submits no order; and it returns null in that case only.
C6_NullOnlyOnUserCancel ==
    checkout.ran =>
        /\ UserCancelled => (checkout.res = Ok(Null) /\ ~checkout.posted)
        /\ checkout.res = Ok(Null) => UserCancelled

----------------------------------------------------------------------------
(* The mnemonic helper, under SpecMnemonic *)

\* C7: with a deterministic signer, decrypting a ciphertext that
\* encryptMnenomic produced for a mnemonic m, while the first keyring account
\* is the one it was at encryption and the signing request succeeds, returns m.
C7_DecryptInvertsEncrypt ==
    (lastCall.op = "decrypt" /\ signer = "deterministic" /\ lastCall.pw.ok) =>
        \A e \in encLog :
            (e.cipher = lastCall.arg /\ e.account0 = lastCall.account0) =>
                lastCall.res = Ok(e.mnemonic)

\* a mnemonic encrypted, the keyrings changed with the first account kept,
\* and the ciphertext decrypted
C7_Witness ==
    /\ lastCall.op = "decrypt"
    /\ signer = "deterministic"
    /\ Len(keyrings) = 1
    /\ Len(keyrings[1].accounts) = 2
    /\ \E e \in encLog :
          /\ e.cipher = lastCall.arg
          /\ e.account0 = lastCall.account0
          /\ lastCall.res = Ok(e.mnemonic)

\* the calls of the helper that need the passphrase
SigningOps == {"encrypt", "decrypt", "save"}

\* C8: every encryptMnenomic, decryptMnemonic and saveMnemonic call makes
\* exactly one signing request, before its encrypt or decrypt step; no store
\* and no caller ever receives the passphrase; when the signing request fails
\* the call throws that error, nothing is encrypted and nothing is written.
C8_PassphraseEphemeral ==
    /\ box.t # "signature"
    /\ localStorage.t # "signature"
    /\ \A v \in known : v.t # "signature"
    /\ lastCall.op \in SigningOps =>
          /\ lastCall.trace[1] = "sign"
          /\ Cardinality({i \in DOMAIN lastCall.trace : lastCall.trace[i] = "sign"}) = 1
          /\ ~lastCall.pw.ok =>
                /\ lastCall.res = lastCall.pw
                /\ lastCall.trace = <<"sign">>
                /\ box = lastCall.boxBefore
                /\ localStorage = lastCall.localBefore

\* a saveMnemonic call that wrote the ciphertext after one signing request
C8_Witness ==
    /\ lastCall.op = "save"
    /\ lastCall.pw.ok
    /\ lastCall.trace = <<"sign", "encrypt", "setItem">>
    /\ localStorage.t = "cipher"
    /\ localStorage.key = lastCall.pw.val

----------------------------------------------------------------------------
(* The password screen, under SpecPassword *)

\* every callback got a password of 8 characters or more and is followed at
\* once by the pop, and every pop follows a callback
CallbacksWellFormed ==
    \A i \in DOMAIN events :
        /\ events[i].e = "onPasswordSet" =>
              /\ Len(events[i].pw) >= 8
              /\ i < Len(events)
              /\ events[i + 1].e = "pop"
        /\ events[i].e = "pop" => (i > 1 /\ events[i - 1].e = "onPasswordSet")

\* what a confirm press does: with 8 characters or more, the callback with
\* the password and then the pop; otherwise neither, and the state is kept
ConfirmEffect ==
    events' # events =>
        /\ UNCHANGED <<password, loading, error>>
        /\ IF Len(password) >= 8 /\ ~loading
           THEN events' = events \o <<Event("onPasswordSet", password), Event("pop", "")>>
           ELSE \A i \in DOMAIN events' :
                   i > Len(events) => events'[i].e \notin {"onPasswordSet", "pop"}

====
